---- MODULE Spec2Model ----
(***************************************************************************)
(* symbolic_math: expression trees (Expr) with evaluation (eval),          *)
(* algebraic simplification (simplify) and distributive expansion          *)
(* (expand).                                                               *)
(*                                                                         *)
(* Numbers.  An f64 is modelled as an extended rational [n, d]:            *)
(*   d > 0           the finite value n/d in lowest terms                  *)
(*   d = 0, n = 1    +infinity                                             *)
(*   d = 0, n = -1   -infinity                                             *)
(*   d = 0, n = 0    NaN                                                   *)
(*   d = -1          a finite float that is not a rational the model can   *)
(*                   name (an irrational power); Inexact                   *)
(* Arithmetic on finite values is exact.  The sign of a zero is not        *)
(* recorded, so a division by zero takes the sign of its numerator.        *)
(***************************************************************************)
EXTENDS Integers, Sequences, FiniteSets, TLC

VARIABLES expr, input, tree, pass, last, result, env

vars == <<expr, input, tree, pass, last, result, env>>

\* ------------------------------------------------------------------ f64

Abs(i) == IF i < 0 THEN -i ELSE i

Sign(i) == IF i < 0 THEN -1 ELSE IF i > 0 THEN 1 ELSE 0

RECURSIVE Gcd(_, _)
Gcd(a, b) == IF b = 0 THEN a ELSE Gcd(b, a % b)

\* the f64 named by the fraction n/d (d may be 0 or negative)
Norm(n, d) ==
    IF d = 0 THEN [n |-> Sign(n), d |-> 0]
    ELSE LET g == Gcd(Abs(n), Abs(d))
             s == IF d < 0 THEN -1 ELSE 1
         IN  [n |-> s * (n \div g), d |-> Abs(d) \div g]

Int2F(i) == [n |-> i, d |-> 1]
PosInf == [n |-> 1, d |-> 0]
NegInf == [n |-> -1, d |-> 0]
NaN == [n |-> 0, d |-> 0]
Inexact == [n |-> 0, d |-> -1]

is_nan(v) == v.d = 0 /\ v.n = 0
is_infinite(v) == v.d = 0 /\ v.n # 0
IsInexact(v) == v.d = -1
IsFinite(v) == v.d # 0
IsInteger(v) == v.d = 1

\* f64 `==`: NaN is equal to nothing, itself included
FloatEq(a, b) == ~is_nan(a) /\ ~is_nan(b) /\ a = b

FNeg(a) == IF IsInexact(a) THEN a ELSE [n |-> -a.n, d |-> a.d]

FAdd(a, b) ==
    IF is_nan(a) \/ is_nan(b) THEN NaN
    ELSE IF is_infinite(a) /\ is_infinite(b) THEN (IF a.n = b.n THEN a ELSE NaN)
    ELSE IF is_infinite(a) THEN a
    ELSE IF is_infinite(b) THEN b
    ELSE IF IsInexact(a) \/ IsInexact(b) THEN Inexact
    ELSE Norm(a.n * b.d + b.n * a.d, a.d * b.d)

FSub(a, b) == FAdd(a, FNeg(b))

FMul(a, b) ==
    IF is_nan(a) \/ is_nan(b) THEN NaN
    ELSE IF IsInexact(a) \/ IsInexact(b) THEN
        (IF a = Int2F(0) \/ b = Int2F(0) THEN Int2F(0)
         ELSE IF is_infinite(a) THEN a
         ELSE IF is_infinite(b) THEN b
         ELSE Inexact)
    ELSE Norm(a.n * b.n, a.d * b.d)

FDiv(a, b) ==
    IF is_nan(a) \/ is_nan(b) THEN NaN
    ELSE IF IsInexact(a) \/ IsInexact(b) THEN
        (IF is_infinite(a) THEN a
         ELSE IF is_infinite(b) \/ a = Int2F(0) THEN Int2F(0)
         ELSE IF b = Int2F(0) THEN PosInf
         ELSE Inexact)
    ELSE LET s == IF b.n < 0 THEN -1 ELSE 1
         IN  Norm(a.n * s * b.d, a.d * s * b.n)

\* a < b on values that are not NaN and not Inexact
FLess(a, b) ==
    IF a.d = 0 \/ b.d = 0 THEN
        (IF a.d = 0 /\ b.d = 0 THEN a.n < b.n
         ELSE IF a.d = 0 THEN a.n < 0
         ELSE b.n > 0)
    ELSE a.n * b.d < b.n * a.d

FAbs(a) == [n |-> Abs(a.n), d |-> a.d]

RECURSIVE IPow(_, _)
IPow(b, k) == IF k = 0 THEN 1 ELSE b * IPow(b, k - 1)

\* the q-th root of the natural number m when it is a natural number, else -1
IRoot(m, q) ==
    IF \E r \in 0..m : IPow(r, q) = m
    THEN CHOOSE r \in 0..m : IPow(r, q) = m
    ELSE -1

IsOdd(i) == i % 2 = 1

\* f64::powf (IEEE 754 pow)
powf(x, y) ==
    IF y = Int2F(0) THEN Int2F(1)
    ELSE IF x = Int2F(1) THEN Int2F(1)
    ELSE IF is_nan(x) \/ is_nan(y) THEN NaN
    ELSE IF IsInexact(y) THEN
        (IF x = Int2F(0) \/ is_infinite(x) THEN Inexact
         ELSE IF IsInexact(x) \/ FLess(Int2F(0), x) THEN Inexact
         ELSE NaN)
    ELSE IF IsInexact(x) THEN Inexact
    ELSE IF x = Int2F(0) THEN
        (IF FLess(y, Int2F(0)) THEN PosInf ELSE Int2F(0))
    ELSE IF is_infinite(y) THEN
        (IF FAbs(x) = Int2F(1) THEN Int2F(1)
         ELSE IF FLess(FAbs(x), Int2F(1)) = (y = PosInf) THEN Int2F(0)
         ELSE PosInf)
    ELSE IF is_infinite(x) THEN
        (IF FLess(y, Int2F(0)) THEN Int2F(0)
         ELSE IF x = NegInf /\ IsInteger(y) /\ IsOdd(y.n) THEN NegInf
         ELSE PosInf)
    ELSE IF IsInteger(y) THEN
        (IF y.n > 0 THEN Norm(IPow(x.n, y.n), IPow(x.d, y.n))
         ELSE Norm(IPow(x.d, -y.n), IPow(x.n, -y.n)))
    ELSE IF x.n < 0 THEN NaN
    ELSE LET rn == IRoot(x.n, y.d)
             rd == IRoot(x.d, y.d)
         IN  IF rn = -1 \/ rd = -1 THEN Inexact
             ELSE IF y.n > 0 THEN Norm(IPow(rn, y.n), IPow(rd, y.n))
             ELSE Norm(IPow(rd, -y.n), IPow(rn, -y.n))

\* the largest power of p, at most p^k, stripped from d
RECURSIVE Strip(_, _, _)
Strip(d, p, k) == IF k = 0 \/ d % p # 0 THEN d ELSE Strip(d \div p, p, k - 1)

\* number of decimal places `round` keeps: val * 10e14 is val * 10^15
RoundPlaces == 15

\* round: (val * 10e14).round() / 10e14.  A finite value with at most
\* RoundPlaces decimal places is returned as it is; any other finite value
\* becomes a 15-place decimal, which the model does not name; infinities and
\* NaN pass through the multiplication, the rounding and the division.
round(val) ==
    IF val.d <= 0 THEN val
    ELSE IF Strip(Strip(val.d, 2, RoundPlaces), 5, RoundPlaces) = 1 THEN val
    ELSE Inexact

\* ----------------------------------------------------------------- Expr

Const(c) == <<"Const", c>>
Symbol(s) == <<"Symbol", s>>
Add(l, r) == <<"Add", l, r>>
Sub(l, r) == <<"Sub", l, r>>
Mul(l, r) == <<"Mul", l, r>>
Div(l, r) == <<"Div", l, r>>
Pow(l, r) == <<"Pow", l, r>>
Neg(e) == <<"Neg", e>>

new_val(val) == Const(val)
new_var(str) == Symbol(str)

Tag(e) == e[1]
IsBinary(e) == Tag(e) \in {"Add", "Sub", "Mul", "Div", "Pow"}
Bin(op, l, r) == <<op, l, r>>

\* #[derive(PartialEq)] on Expr: same variant and equal fields; the f64 of a
\* Const is compared with the f64 `==`
RECURSIVE ExprEq(_, _)
ExprEq(a, b) ==
    IF Tag(a) # Tag(b) THEN FALSE
    ELSE IF Tag(a) = "Const" THEN FloatEq(a[2], b[2])
    ELSE IF Tag(a) = "Symbol" THEN a[2] = b[2]
    ELSE IF Tag(a) = "Neg" THEN ExprEq(a[2], b[2])
    ELSE ExprEq(a[2], b[2]) /\ ExprEq(a[3], b[3])

\* ----------------------------------------------------------------- eval

Ok(v) == <<"Ok", v>>
SymbolNotFound(s) == <<"SymbolNotFound", s>>
UndefinedOperation == <<"UndefinedOperation">>
IsOk(res) == res[1] = "Ok"

\* eval_binary with the right operand's error returned before the left one's
eval_binary_right_first(o, lhs_val, rhs_val) ==
    IF ~IsOk(rhs_val) THEN rhs_val
    ELSE IF ~IsOk(lhs_val) THEN lhs_val
    ELSE IF o = "Add" THEN Ok(round(FAdd(lhs_val[2], rhs_val[2])))
    ELSE IF o = "Sub" THEN Ok(round(FSub(lhs_val[2], rhs_val[2])))
    ELSE IF o = "Mul" THEN Ok(round(FMul(lhs_val[2], rhs_val[2])))
    ELSE IF o = "Div" THEN Ok(round(FDiv(lhs_val[2], rhs_val[2])))
    ELSE LET res == powf(lhs_val[2], rhs_val[2])
         IN  IF is_nan(res) \/ is_infinite(res)
             THEN UndefinedOperation
             ELSE Ok(round(res))

\* the body of a binary arm of Expr::eval once both operands are evaluated:
\* `lhs.eval(vars)?` returns the left error before the right operand counts,
\* `rhs.eval(vars)?` returns the right error, then the operator is applied
eval_binary(o, lhs_val, rhs_val) ==
    IF ~IsOk(lhs_val) THEN lhs_val
    ELSE IF ~IsOk(rhs_val) THEN rhs_val
    ELSE IF o = "Add" THEN Ok(round(FAdd(lhs_val[2], rhs_val[2])))
    ELSE IF o = "Sub" THEN Ok(round(FSub(lhs_val[2], rhs_val[2])))
    ELSE IF o = "Mul" THEN Ok(round(FMul(lhs_val[2], rhs_val[2])))
    ELSE IF o = "Div" THEN Ok(round(FDiv(lhs_val[2], rhs_val[2])))
    ELSE LET res == powf(lhs_val[2], rhs_val[2])
         IN  IF is_nan(res) \/ is_infinite(res)
             THEN UndefinedOperation
             ELSE Ok(round(res))

\* Expr::eval
RECURSIVE eval(_, _)
eval(e, bindings) ==
    IF Tag(e) = "Const" THEN Ok(e[2])
    ELSE IF Tag(e) = "Symbol" THEN
        (IF e[2] \in DOMAIN bindings THEN Ok(bindings[e[2]]) ELSE SymbolNotFound(e[2]))
    ELSE IF Tag(e) = "Neg" THEN
        LET expr_val == eval(e[2], bindings)
        IN  IF ~IsOk(expr_val) THEN expr_val ELSE Ok(FNeg(expr_val[2]))
    ELSE eval_binary(Tag(e), eval(e[2], bindings), eval(e[3], bindings))

\* ------------------------------------------------------------- simplify

\* a panic unwinding out of the call
Panic == <<"Panic">>
IsPanic(e) == Tag(e) = "Panic"

is_const(e) == Tag(e) = "Const"

\* Expr::get_const: the value of a Const, a panic on any other node
get_const(e) == IF Tag(e) = "Const" THEN Ok(e[2]) ELSE Panic

IsConstOf(e, i) == Tag(e) = "Const" /\ FloatEq(e[2], Int2F(i))

\* like_terms with the coefficient left as it was
like_terms_same_coefficient(c, out) ==
    LET cv == get_const(c)
    IN  IF IsPanic(cv) THEN Panic
        ELSE Mul(new_val(cv[2]), out)

\* the like-terms result (c+1) * out
like_terms(c, out) ==
    LET cv == get_const(c)
    IN  IF IsPanic(cv) THEN Panic
        ELSE Mul(new_val(FAdd(cv[2], Int2F(1))), out)

\* simplify_add whose like-terms guard lacks `c.is_const()`
simplify_add_unguarded(lhs, rhs) ==
    IF ExprEq(lhs, rhs) THEN Mul(new_val(Int2F(2)), lhs)
    ELSE IF Tag(lhs) = "Mul" /\ ExprEq(lhs[3], rhs) THEN like_terms(lhs[2], rhs)
    ELSE IF Tag(lhs) = "Mul" /\ ExprEq(lhs[2], rhs) THEN like_terms(lhs[3], rhs)
    ELSE IF Tag(rhs) = "Mul" /\ ExprEq(rhs[2], lhs) THEN like_terms(rhs[3], lhs)
    ELSE IF Tag(rhs) = "Mul" /\ ExprEq(rhs[3], lhs) THEN like_terms(rhs[2], lhs)
    ELSE IF is_const(lhs) /\ is_const(rhs) THEN new_val(FAdd(lhs[2], rhs[2]))
    ELSE IF IsConstOf(lhs, 0) THEN rhs
    ELSE IF IsConstOf(rhs, 0) THEN lhs
    ELSE Add(lhs, rhs)

\* simplify_add whose fallback rebuilds the node with its operands swapped
simplify_add_swapped(lhs, rhs) ==
    IF ExprEq(lhs, rhs) THEN Mul(new_val(Int2F(2)), lhs)
    ELSE IF Tag(lhs) = "Mul" /\ ExprEq(lhs[3], rhs) /\ is_const(lhs[2])
        THEN like_terms(lhs[2], rhs)
    ELSE IF Tag(lhs) = "Mul" /\ ExprEq(lhs[2], rhs) /\ is_const(lhs[3])
        THEN like_terms(lhs[3], rhs)
    ELSE IF Tag(rhs) = "Mul" /\ ExprEq(rhs[2], lhs) /\ is_const(rhs[3])
        THEN like_terms(rhs[3], lhs)
    ELSE IF Tag(rhs) = "Mul" /\ ExprEq(rhs[3], lhs) /\ is_const(rhs[2])
        THEN like_terms(rhs[2], lhs)
    ELSE IF is_const(lhs) /\ is_const(rhs) THEN new_val(FAdd(lhs[2], rhs[2]))
    ELSE IF IsConstOf(lhs, 0) THEN rhs
    ELSE IF IsConstOf(rhs, 0) THEN lhs
    ELSE Add(rhs, lhs)

\* the match of the Add arm on the simplified children
simplify_add(lhs, rhs) ==
    IF ExprEq(lhs, rhs) THEN Mul(new_val(Int2F(2)), lhs)
    ELSE IF Tag(lhs) = "Mul" /\ ExprEq(lhs[3], rhs) /\ is_const(lhs[2])
        THEN like_terms(lhs[2], rhs)
    ELSE IF Tag(lhs) = "Mul" /\ ExprEq(lhs[2], rhs) /\ is_const(lhs[3])
        THEN like_terms(lhs[3], rhs)
    ELSE IF Tag(rhs) = "Mul" /\ ExprEq(rhs[2], lhs) /\ is_const(rhs[3])
        THEN like_terms(rhs[3], lhs)
    ELSE IF Tag(rhs) = "Mul" /\ ExprEq(rhs[3], lhs) /\ is_const(rhs[2])
        THEN like_terms(rhs[2], lhs)
    ELSE IF is_const(lhs) /\ is_const(rhs) THEN new_val(FAdd(lhs[2], rhs[2]))
    ELSE IF IsConstOf(lhs, 0) THEN rhs
    ELSE IF IsConstOf(rhs, 0) THEN lhs
    ELSE Add(lhs, rhs)

\* the match of the Sub arm on the simplified children
simplify_sub(lhs, rhs) ==
    IF is_const(lhs) /\ is_const(rhs) THEN new_val(FSub(lhs[2], rhs[2]))
    ELSE IF IsConstOf(lhs, 0) THEN rhs
    ELSE IF IsConstOf(rhs, 0) THEN lhs
    ELSE Sub(lhs, rhs)

\* simplify_mul whose square keeps its exponent as the unfolded sum 1 + 1
simplify_mul_unfolded_square(lhs, rhs) ==
    IF ExprEq(lhs, rhs)
        THEN Pow(lhs, Add(new_val(Int2F(1)), new_val(Int2F(1))))
    ELSE IF Tag(lhs) = "Pow" /\ Tag(rhs) = "Pow" /\ ExprEq(lhs[2], rhs[2])
        THEN Pow(lhs[2], Add(lhs[3], rhs[3]))
    ELSE IF is_const(lhs) /\ is_const(rhs) THEN new_val(FMul(lhs[2], rhs[2]))
    ELSE IF IsConstOf(rhs, 1) THEN lhs
    ELSE IF IsConstOf(lhs, 1) THEN rhs
    ELSE IF IsConstOf(lhs, 0) \/ IsConstOf(rhs, 0) THEN Const(Int2F(0))
    ELSE IF IsConstOf(lhs, -1) THEN Neg(rhs)
    ELSE IF IsConstOf(rhs, -1) THEN Neg(lhs)
    ELSE Mul(lhs, rhs)

\* the match of the Mul arm on the simplified children
simplify_mul(lhs, rhs) ==
    IF ExprEq(lhs, rhs) THEN Pow(lhs, new_val(Int2F(2)))
    ELSE IF Tag(lhs) = "Pow" /\ Tag(rhs) = "Pow" /\ ExprEq(lhs[2], rhs[2])
        THEN Pow(lhs[2], Add(lhs[3], rhs[3]))
    ELSE IF is_const(lhs) /\ is_const(rhs) THEN new_val(FMul(lhs[2], rhs[2]))
    ELSE IF IsConstOf(rhs, 1) THEN lhs
    ELSE IF IsConstOf(lhs, 1) THEN rhs
    ELSE IF IsConstOf(lhs, 0) \/ IsConstOf(rhs, 0) THEN Const(Int2F(0))
    ELSE IF IsConstOf(lhs, -1) THEN Neg(rhs)
    ELSE IF IsConstOf(rhs, -1) THEN Neg(lhs)
    ELSE Mul(lhs, rhs)

\* the match of the Div arm on the simplified children
simplify_div(lhs, rhs) ==
    IF is_const(lhs) /\ is_const(rhs) THEN new_val(FDiv(lhs[2], rhs[2]))
    ELSE IF IsConstOf(rhs, 1) THEN lhs
    ELSE IF IsConstOf(lhs, 1) THEN rhs
    ELSE IF IsConstOf(lhs, 0) THEN Const(Int2F(0))
    ELSE Div(lhs, rhs)

\* simplify_pow with the exponent-1 rule tried before the nested-power rule
simplify_pow_exponent_one_first(lhs, rhs) ==
    IF IsConstOf(rhs, 1) THEN lhs
    ELSE IF Tag(lhs) = "Pow" THEN Pow(lhs[2], Mul(lhs[3], rhs))
    ELSE IF IsConstOf(rhs, 0) THEN Const(Int2F(1))
    ELSE IF IsConstOf(lhs, 1) THEN Const(Int2F(1))
    ELSE Pow(lhs, rhs)

\* the match of the Pow arm on the simplified children
simplify_pow(lhs, rhs) ==
    IF Tag(lhs) = "Pow" THEN Pow(lhs[2], Mul(lhs[3], rhs))
    ELSE IF IsConstOf(rhs, 1) THEN lhs
    ELSE IF IsConstOf(rhs, 0) THEN Const(Int2F(1))
    ELSE IF IsConstOf(lhs, 1) THEN Const(Int2F(1))
    ELSE Pow(lhs, rhs)

\* Expr::simplify: the children of a binary node are simplified, then the
\* node's match is applied once; Const, Symbol and Neg are cloned
RECURSIVE simplify(_)
simplify(e) ==
    IF ~IsBinary(e) THEN e
    ELSE LET lhs == simplify(e[2])
             rhs == simplify(e[3])
         IN  IF IsPanic(lhs) \/ IsPanic(rhs) THEN Panic
             ELSE IF Tag(e) = "Add" THEN simplify_add(lhs, rhs)
             ELSE IF Tag(e) = "Sub" THEN simplify_sub(lhs, rhs)
             ELSE IF Tag(e) = "Mul" THEN simplify_mul(lhs, rhs)
             ELSE IF Tag(e) = "Div" THEN simplify_div(lhs, rhs)
             ELSE simplify_pow(lhs, rhs)

\* --------------------------------------------------------------- expand

RECURSIVE expand(_)

\* expand_mul that distributes over an Add on the left only
expand_mul_left_add_only(lhs, rhs) ==
    IF Tag(lhs) = "Add"
        THEN expand(Add(Mul(lhs[2], rhs), Mul(lhs[3], rhs)))
    ELSE IF Tag(lhs) = "Sub"
        THEN expand(Sub(Mul(rhs, lhs[2]), Mul(rhs, lhs[3])))
    ELSE IF Tag(rhs) = "Sub"
        THEN expand(Sub(Mul(lhs, rhs[2]), Mul(lhs, rhs[3])))
    ELSE Mul(lhs, rhs)

\* expand_mul that does not expand the sum or difference it has distributed
expand_mul_single_step(lhs, rhs) ==
    IF Tag(lhs) = "Add"
        THEN Add(Mul(lhs[2], rhs), Mul(lhs[3], rhs))
    ELSE IF Tag(rhs) = "Add"
        THEN Add(Mul(rhs[2], lhs), Mul(rhs[3], lhs))
    ELSE IF Tag(lhs) = "Sub"
        THEN Sub(Mul(rhs, lhs[2]), Mul(rhs, lhs[3]))
    ELSE IF Tag(rhs) = "Sub"
        THEN Sub(Mul(lhs, rhs[2]), Mul(lhs, rhs[3]))
    ELSE Mul(lhs, rhs)

\* expand_mul whose difference has its two products the other way round
expand_mul_sub_swapped(lhs, rhs) ==
    IF Tag(lhs) = "Add"
        THEN expand(Add(Mul(lhs[2], rhs), Mul(lhs[3], rhs)))
    ELSE IF Tag(rhs) = "Add"
        THEN expand(Add(Mul(rhs[2], lhs), Mul(rhs[3], lhs)))
    ELSE IF Tag(lhs) = "Sub"
        THEN expand(Sub(Mul(rhs, lhs[3]), Mul(rhs, lhs[2])))
    ELSE IF Tag(rhs) = "Sub"
        THEN expand(Sub(Mul(lhs, rhs[3]), Mul(lhs, rhs[2])))
    ELSE Mul(lhs, rhs)

\* the match of the Mul arm on the expanded children
expand_mul(lhs, rhs) ==
    IF Tag(lhs) = "Add"
        THEN expand(Add(Mul(lhs[2], rhs), Mul(lhs[3], rhs)))
    ELSE IF Tag(rhs) = "Add"
        THEN expand(Add(Mul(rhs[2], lhs), Mul(rhs[3], lhs)))
    ELSE IF Tag(lhs) = "Sub"
        THEN expand(Sub(Mul(rhs, lhs[2]), Mul(rhs, lhs[3])))
    ELSE IF Tag(rhs) = "Sub"
        THEN expand(Sub(Mul(lhs, rhs[2]), Mul(lhs, rhs[3])))
    ELSE Mul(lhs, rhs)

\* Expr::expand
expand(e) ==
    IF Tag(e) = "Mul" THEN expand_mul(expand(e[2]), expand(e[3]))
    ELSE IF IsBinary(e) THEN Bin(Tag(e), expand(e[2]), expand(e[3]))
    ELSE e

\* -------------------------------------------------------------- program
\* A caller builds a tree with the constructors and the operator impls
\* (expr), passes it through simplify any number of times or through expand
\* any number of times (input is the tree the last call was made on, tree the
\* one the last pass returned) and evaluates the tree under a binding map
\* (env, result).

\* the binary constructors extend trees of at most MaxExtend nodes
MaxExtend == 3

ConstVals == {0, 1, 2}
Symbols == {"x", "y"}
BindVals == {0, 2}

Leaves == {new_val(Int2F(c)) : c \in ConstVals} \cup {new_var(s) : s \in Symbols}

\* compound right or left operands of an operator
Sums == {Add(new_var("x"), new_var("y")), Sub(new_var("x"), new_var("y"))}

Operands == Leaves \cup Sums

BinaryOps == {"Add", "Sub", "Mul", "Div", "Pow"}

\* the maps from some of the symbols to a value
Bindings == UNION {[S -> {Int2F(v) : v \in BindVals}] : S \in SUBSET Symbols}

None == <<"None">>
NoBindings == [s \in {} |-> Int2F(0)]

RECURSIVE Nodes(_)
Nodes(e) ==
    IF IsBinary(e) THEN 1 + Nodes(e[2]) + Nodes(e[3])
    ELSE IF Tag(e) = "Neg" THEN 1 + Nodes(e[2])
    ELSE 1

Init ==
    /\ expr \in Leaves
    /\ tree = expr
    /\ input = expr
    /\ pass = "none"
    /\ last = "new"
    /\ result = None
    /\ env = NoBindings

Building == last \in {"new", "build"} /\ Nodes(expr) <= MaxExtend

\* ops::Add, ops::Sub, ops::Mul, ops::Div and Expr::pow with the tree as the
\* left operand
BuildLeft(o, operand) ==
    /\ Building
    /\ expr' = Bin(o, expr, operand)
    /\ tree' = expr'
    /\ input' = expr'
    /\ last' = "build"
    /\ UNCHANGED <<pass, result, env>>

\* the same with the tree as the right operand
BuildRight(o, operand) ==
    /\ Building
    /\ expr' = Bin(o, operand, expr)
    /\ tree' = expr'
    /\ input' = expr'
    /\ last' = "build"
    /\ UNCHANGED <<pass, result, env>>

\* ops::Neg on a tree of at most max nodes
Negate(max) ==
    /\ last \in {"new", "build"}
    /\ Nodes(expr) <= max
    /\ expr' = Neg(expr)
    /\ tree' = expr'
    /\ input' = expr'
    /\ last' = "build"
    /\ UNCHANGED <<pass, result, env>>

BuildNeg == Negate(MaxExtend)

\* the tree is built and no pass of another kind than p was made on it
Passing(p) == last \in {"new", "build", p} /\ pass \in {"none", p}

\* tree = tree.simplify()
Simplify ==
    /\ Passing("simplify")
    /\ input' = tree
    /\ tree' = simplify(tree)
    /\ last' = IF IsPanic(tree') THEN "panic" ELSE "simplify"
    /\ pass' = "simplify"
    /\ UNCHANGED <<expr, result, env>>

\* tree = tree.expand()
Expand ==
    /\ Passing("expand")
    /\ input' = tree
    /\ tree' = expand(tree)
    /\ last' = "expand"
    /\ pass' = "expand"
    /\ UNCHANGED <<expr, result, env>>

\* result = tree.eval(&bindings)
Eval(bindings) ==
    /\ last \in {"new", "build", "simplify", "expand"}
    /\ input' = tree
    /\ result' = eval(tree, bindings)
    /\ env' = bindings
    /\ last' = "eval"
    /\ UNCHANGED <<expr, tree, pass>>

Next ==
    \/ \E o \in BinaryOps, operand \in Operands : BuildLeft(o, operand)
    \/ \E o \in BinaryOps, operand \in Operands : BuildRight(o, operand)
    \/ BuildNeg
    \/ Simplify
    \/ Expand
    \/ \E bindings \in Bindings : Eval(bindings)

Spec == Init /\ [][Next]_vars

\* The callers of expand: the same constructors, with Neg applied to trees of
\* up to MaxNegate nodes (a product of a sum of two leaves and a leaf has
\* five), then expand passes and eval.
MaxNegate == 5

BuildNegOfProduct == Negate(MaxNegate)

ExpandNext ==
    \/ \E o \in BinaryOps, operand \in Operands : BuildLeft(o, operand)
    \/ \E o \in BinaryOps, operand \in Operands : BuildRight(o, operand)
    \/ BuildNegOfProduct
    \/ Expand
    \/ \E bindings \in Bindings : Eval(bindings)

ExpandSpec == Init /\ [][ExpandNext]_vars

TypeOK == last \in {"new", "build", "simplify", "expand", "eval", "panic"}

\* --------------------------------------------------------------- claims

\* every Symbol of e is a key of bindings
RECURSIVE Resolves(_, _)
Resolves(e, bindings) ==
    IF Tag(e) = "Symbol" THEN e[2] \in DOMAIN bindings
    ELSE IF Tag(e) = "Neg" THEN Resolves(e[2], bindings)
    ELSE IF IsBinary(e) THEN Resolves(e[2], bindings) /\ Resolves(e[3], bindings)
    ELSE TRUE

\* C1: simplify preserves value.  When a built tree has gone through simplify
\* passes only and is then evaluated, and the built tree itself evaluates to a
\* value v under the same bindings, the result is that value v.
C1_SimplifyPreservesValue ==
    (last = "eval" /\ pass = "simplify" /\ Resolves(expr, env)
        /\ IsOk(eval(expr, env)))
    => result = eval(expr, env)

\* C2: simplify collapses a Const(0) operand of a Sub only when it is the
\* subtrahend.  For x that does not simplify to a constant, simplify of
\* Sub(x, Const(0)) is simplify(x), and simplify of Sub(Const(0), x) is not
\* simplify(x).
C2_SubZeroOnlySubtrahend ==
    (last = "simplify" /\ Tag(input) = "Sub")
    => /\ (IsConstOf(input[3], 0) /\ ~is_const(simplify(input[2])))
            => tree = simplify(input[2])
       /\ (IsConstOf(input[2], 0) /\ ~is_const(simplify(input[3])))
            => tree # simplify(input[3])

\* C3: simplify collapses a Const(1) operand of a Div only when it is the
\* divisor.  For x that does not simplify to a constant, simplify of
\* Div(x, Const(1)) is simplify(x), and simplify of Div(Const(1), x) is not
\* simplify(x).
C3_DivOneOnlyDivisor ==
    (last = "simplify" /\ Tag(input) = "Div")
    => /\ (IsConstOf(input[3], 1) /\ ~is_const(simplify(input[2])))
            => tree = simplify(input[2])
       /\ (IsConstOf(input[2], 1) /\ ~is_const(simplify(input[3])))
            => tree # simplify(input[3])

\* the f64 operator of a binary node other than Pow
Arith(o, a, b) ==
    IF o = "Add" THEN FAdd(a, b)
    ELSE IF o = "Sub" THEN FSub(a, b)
    ELSE IF o = "Mul" THEN FMul(a, b)
    ELSE FDiv(a, b)

\* C4: constant folding comes first.  simplify of op(Const(a), Const(b)), op
\* one of Add, Sub, Mul, Div, is the single node Const(a op b), also when a
\* equals b.
C4_ConstantFoldingFirst ==
    (last = "simplify" /\ Tag(input) \in {"Add", "Sub", "Mul", "Div"}
        /\ is_const(input[2]) /\ is_const(input[3]))
    => tree = Const(Arith(Tag(input), input[2][2], input[3][2]))

\* C5: the distributive rule of expand at a Mul node.  With l and r the
\* expanded children: an Add child (the left one first) is distributed over
\* the other child and the sum is expanded again; else a Sub child (the left
\* one first) is distributed with the other child as the left factor and the
\* difference is expanded again; else the result is Mul(l, r).
C5_ExpandDistributes ==
    (last = "expand" /\ Tag(input) = "Mul")
    => LET l == expand(input[2])
           r == expand(input[3])
       IN  IF Tag(l) = "Add"
               THEN tree = expand(Add(Mul(l[2], r), Mul(l[3], r)))
           ELSE IF Tag(r) = "Add"
               THEN tree = expand(Add(Mul(r[2], l), Mul(r[3], l)))
           ELSE IF Tag(l) = "Sub"
               THEN tree = expand(Sub(Mul(r, l[2]), Mul(r, l[3])))
           ELSE IF Tag(r) = "Sub"
               THEN tree = expand(Sub(Mul(l, r[2]), Mul(l, r[3])))
           ELSE tree = Mul(l, r)

\* a product of a Sub on the left and an Add on the right was expanded: the
\* Add on the right is the one distributed
C5_Witness ==
    /\ last = "expand"
    /\ Tag(input) = "Mul"
    /\ Tag(input[2]) = "Sub"
    /\ Tag(input[3]) = "Add"
    /\ Tag(tree) = "Add"

RECURSIVE Subtrees(_)
Subtrees(e) ==
    IF IsBinary(e) THEN {e} \cup Subtrees(e[2]) \cup Subtrees(e[3])
    ELSE IF Tag(e) = "Neg" THEN {e} \cup Subtrees(e[2])
    ELSE {e}

\* C6: eval returns the first failure in left-to-right order.  A Symbol
\* missing from the bindings gives SymbolNotFound of that symbol; at a binary
\* node the error of the left child is the result whatever the right child
\* is, the error of the right child is the result when the left child has a
\* value; and a value is returned only when every subtree has a value.
C6_EvalShortCircuits ==
    last = "eval"
    => /\ (Tag(tree) = "Symbol" /\ tree[2] \notin DOMAIN env)
            => result = SymbolNotFound(tree[2])
       /\ IsBinary(tree)
            => LET l == eval(tree[2], env)
                   r == eval(tree[3], env)
               IN  /\ ~IsOk(l) => result = l
                   /\ (IsOk(l) /\ ~IsOk(r)) => result = r
       /\ IsOk(result) => \A s \in Subtrees(tree) : IsOk(eval(s, env))

\* a binary node was evaluated whose children fail with different errors, and
\* the result is the error of the left child
C6_Witness ==
    /\ last = "eval"
    /\ IsBinary(tree)
    /\ ~IsOk(eval(tree[2], env))
    /\ ~IsOk(eval(tree[3], env))
    /\ eval(tree[2], env) # eval(tree[3], env)
    /\ result = eval(tree[2], env)

\* C7: when every Symbol of the tree resolves, eval returns a finite number
\* or one of the errors SymbolNotFound and UndefinedOperation, never an
\* infinity or a NaN, also below a Div whose divisor is 0.
C7_EvalFiniteOrError ==
    (last = "eval" /\ Resolves(tree, env))
    => \/ result = UndefinedOperation
       \/ result[1] = "SymbolNotFound"
       \/ IsOk(result) /\ IsFinite(result[2])

\* simplify applied n times
RECURSIVE simplify_n(_, _)
simplify_n(e, n) == IF n = 0 THEN e ELSE simplify(simplify_n(e, n - 1))

\* passes of simplify looked at for a fixed point
MaxPasses == 3

\* C8 as stated: repeated simplification converges.  For the built tree e
\* there is an n such that simplify applied n+1 times to e is equal, under
\* the `==` of Expr, to simplify applied n times to e.
C8_ConvergesUnderEq ==
    last \in {"new", "build"} =>
    \E n \in 0..MaxPasses : ExprEq(simplify_n(expr, n + 1), simplify_n(expr, n))

\* some Const of e is a NaN
RECURSIVE HasNaN(_)
HasNaN(e) ==
    IF Tag(e) = "Const" THEN is_nan(e[2])
    ELSE IF Tag(e) = "Neg" THEN HasNaN(e[2])
    ELSE IF IsBinary(e) THEN HasNaN(e[2]) \/ HasNaN(e[3])
    ELSE FALSE

\* C8, amended: for the built tree e there is an n such that simplify applied
\* n+1 times to e returns the very tree that simplify applied n times to e
\* returns (same variants, same symbols, same constants, a NaN constant
\* counting as the same as itself); the two are equal under the `==` of Expr
\* as well unless that tree holds a NaN constant.
C8_ConvergesToSameTree ==
    last \in {"new", "build"} =>
    \E n \in 0..MaxPasses :
        /\ simplify_n(expr, n + 1) = simplify_n(expr, n)
        /\ HasNaN(simplify_n(expr, n))
            \/ ExprEq(simplify_n(expr, n + 1), simplify_n(expr, n))

\* a second simplify pass changed the tree again, and the pass after it
\* returned its argument
C8_Witness ==
    /\ last = "simplify"
    /\ pass = "simplify"
    /\ input = tree
    /\ simplify(expr) # expr
    /\ simplify(expr) # tree
    /\ tree = simplify(simplify(expr))

RECURSIVE WellFormed(_)
WellFormed(e) ==
    IF Tag(e) = "Const" THEN Len(e) = 2 /\ e[2].d >= -1
    ELSE IF Tag(e) = "Symbol" THEN Len(e) = 2 /\ e[2] \in Symbols
    ELSE IF Tag(e) = "Neg" THEN Len(e) = 2 /\ WellFormed(e[2])
    ELSE IsBinary(e) /\ Len(e) = 3 /\ WellFormed(e[2]) /\ WellFormed(e[3])

\* C9: simplify and expand are total.  No pass panics, so get_const is only
\* ever called on a Const, and every pass returns an expression.
C9_PassesTotal ==
    /\ last # "panic"
    /\ ~IsPanic(tree)
    /\ WellFormed(tree)

\* simplify took the like-terms arm through its last alternative,
\* (out, Mul(c, inside)), and called get_const on c
C9_Witness ==
    /\ last = "simplify"
    /\ Tag(input) = "Add"
    /\ Tag(input[3]) = "Mul"
    /\ is_const(input[3][2])
    /\ Tag(input[2]) = "Symbol"
    /\ input[3][3] = input[2]
    /\ tree = Mul(Const(FAdd(input[3][2][2], Int2F(1))), input[2])

\* C10: like terms of an Add.  With l and r the simplified children: when
\* they are equal the result is Mul(Const(2), l); otherwise, when one of them
\* is a Mul of a Const c and of x, in either order, and x equals the other
\* child, the result is Mul(Const(c+1), x).  So (x + x) + x gives 3 * x.
C10_LikeTerms ==
    (last = "simplify" /\ Tag(input) = "Add")
    => LET l == simplify(input[2])
           r == simplify(input[3])
       IN  /\ IF ExprEq(l, r) THEN tree = Mul(Const(Int2F(2)), l)
              ELSE \A p \in {<<l, r>>, <<r, l>>} :
                     Tag(p[1]) = "Mul"
                     => \A cx \in {<<p[1][2], p[1][3]>>, <<p[1][3], p[1][2]>>} :
                          (is_const(cx[1]) /\ ExprEq(cx[2], p[2]))
                          => tree = Mul(Const(FAdd(cx[1][2], Int2F(1))), p[2])
           /\ input = Add(Add(Symbol("x"), Symbol("x")), Symbol("x"))
                => tree = Mul(Const(Int2F(3)), Symbol("x"))

\* (x + x) + x was simplified
C10_Witness ==
    /\ last = "simplify"
    /\ input = Add(Add(Symbol("x"), Symbol("x")), Symbol("x"))
    /\ tree = Mul(Const(Int2F(3)), Symbol("x"))

\* C11: nested power flattening.  When the simplified base of a Pow is
\* Pow(b, p1), simplify of the node is Pow(b, Mul(p1, simplified exponent)),
\* also when the exponent is Const(1) or Const(0) and when b is Const(1); so
\* simplify of Pow(Pow(a, b), c) is Pow(a, Mul(b, c)) for variables a, b, c.
C11_NestedPowFlattening ==
    (last = "simplify" /\ Tag(input) = "Pow")
    => /\ LET base == simplify(input[2])
               exp == simplify(input[3])
           IN  Tag(base) = "Pow" => tree = Pow(base[2], Mul(base[3], exp))
       /\ simplify(Pow(Pow(Symbol("a"), Symbol("b")), Symbol("c")))
            = Pow(Symbol("a"), Mul(Symbol("b"), Symbol("c")))

\* a power of a power with the exponent Const(1) was simplified: the nested
\* power rule was taken, not the exponent-1 rule
C11_Witness ==
    /\ last = "simplify"
    /\ Tag(input) = "Pow"
    /\ Tag(input[2]) = "Pow"
    /\ IsConstOf(input[3], 1)
    /\ tree = Pow(input[2][2], Mul(input[2][3], input[3]))

\* C12: simplify recurses through negation.  simplify of Neg(e) is
\* Neg(simplify(e)).
C12_SimplifyThroughNeg ==
    (last = "simplify" /\ Tag(input) = "Neg")
    => tree = Neg(simplify(input[2]))

\* C13: expand recurses through negation.  expand of Neg(e) is
\* Neg(expand(e)), so a product of a sum below a Neg is distributed.
C13_ExpandThroughNeg ==
    (last = "expand" /\ Tag(input) = "Neg")
    => tree = Neg(expand(input[2]))

\* C14: simplify never grows the tree.  The tree a simplify pass returns has
\* at most as many nodes as the tree it was called on.
C14_SimplifyNeverGrows ==
    last = "simplify"
    => /\ Nodes(tree) <= Nodes(input)
       /\ LET e == Mul(Pow(Symbol("x"), Symbol("y")),
                       Pow(Symbol("x"), Const(Int2F(2))))
          IN  Nodes(simplify(e)) <= Nodes(e)

\* a pass rewrote a sum of two equal leaves into a product, or a product of
\* two equal leaves into a power: another tree with as many nodes
C14_Witness ==
    /\ last = "simplify"
    /\ Tag(input) \in {"Add", "Mul"}
    /\ input[2] = input[3]
    /\ tree # input
    /\ Nodes(tree) = Nodes(input)

RECURSIVE IsRing(_)
IsRing(e) ==
    IF Tag(e) \in {"Const", "Symbol"} THEN TRUE
    ELSE IF Tag(e) = "Neg" THEN IsRing(e[2])
    ELSE Tag(e) \in {"Add", "Sub", "Mul"} /\ IsRing(e[2]) /\ IsRing(e[3])

\* C16: expand preserves value.  When a tree built from Const, Symbol, Add,
\* Sub, Mul and Neg has gone through expand passes and is then evaluated, and
\* the built tree itself evaluates to a value v under the same bindings, the
\* result is that value v.
C16_ExpandPreservesValue ==
    (last = "eval" /\ pass = "expand" /\ IsRing(expr) /\ IsOk(eval(expr, env)))
    => result = eval(expr, env)

\* a product with a difference was expanded into another tree, and evaluated
\* to a value other than 0
C16_Witness ==
    /\ last = "eval"
    /\ pass = "expand"
    /\ IsRing(expr)
    /\ Tag(expr) = "Mul"
    /\ Tag(tree) = "Sub"
    /\ IsOk(result)
    /\ result # Ok(Int2F(0))
    /\ result = eval(expr, env)

====
